---- MODULE Spec2Model ----
(***************************************************************************)
(* A model of the resume relevance scoring system:                         *)
(*   app/config.py                 Config (weights, thresholds)            *)
(*   app/core/scoring_engine.py    ScoringEngine                           *)
(*   app/core/llm_handler.py       LLMHandler                              *)
(*   app/core/resume_processor.py  ResumeProcessor                         *)
(*   app/database/models.py        DatabaseOperations.save_evaluation      *)
(*   app.py                        session state, settings page            *)
(*                                                                         *)
(* Numbers.  Python floats are modelled as exact rationals [n, d] in       *)
(* lowest terms (d > 0); binary rounding error of the float operations is  *)
(* not modelled.  Weights are kept in tenths, the step of the settings     *)
(* sliders (app.py:601-616).                                               *)
(*                                                                         *)
(* Text.  A Python str is a sequence of one-character strings, so that     *)
(* lower(), the substring test, the fuzzy ratio and the regular            *)
(* expressions are computed character by character.                        *)
(***************************************************************************)
EXTENDS Integers, Sequences, FiniteSets, TLC

VARIABLES
    Config,          \* class attributes of app.config.Config
    engine,          \* the ScoringEngine held by the session's ResumeProcessor
    pc,              \* position of the running evaluation
    resume_text,     \* parse_document(resume_path)
    jd_text,         \* parse_document(jd_path)
    resume_data,     \* extract_resume_sections(resume_text)
    jd_data,         \* parse_job_description(jd_text)
    semantic_score,  \* calculate_semantic_similarity(...)
    llm_analysis,    \* analyze_resume_fit(...)
    scored,          \* what calculate_overall_score returned
    feedback,        \* generate_feedback(...)
    result,          \* what process_resume_and_jd returned
    db,              \* rows of resume_evaluations
    ext              \* what the external services did during this evaluation

vars == << Config, engine, pc, resume_text, jd_text, resume_data, jd_data,
           semantic_score, llm_analysis, scored, feedback, result, db, ext >>

(***************************************************************************)
(* Bounds of the model.                                                    *)
(***************************************************************************)
MaxSkills == 2      \* longest skill list drawn for a resume or a job
MaxEntries == 2     \* longest experience list drawn for a resume
MaxRows == 1        \* rows stored before the model stops evaluating
MaxBatch == 2       \* most files in the folder of a batch

(***************************************************************************)
(* Rationals for Python floats.                                            *)
(***************************************************************************)
Abs(x) == IF x < 0 THEN -x ELSE x

RECURSIVE GCD(_, _)
GCD(a, b) == IF b = 0 THEN a ELSE GCD(b, a % b)

Rat(n, d) ==
    LET g == GCD(Abs(n), Abs(d))
        s == IF d < 0 THEN -1 ELSE 1
    IN  [n |-> (s * n) \div g, d |-> (s * d) \div g]

RInt(i) == [n |-> i, d |-> 1]
RAdd(x, y) == Rat(x.n * y.d + y.n * x.d, x.d * y.d)
RMul(x, y) == Rat(x.n * y.n, x.d * y.d)
RDiv(x, y) == Rat(x.n * y.d, x.d * y.n)
RGeq(x, y) == x.n * y.d >= y.n * x.d
RLeq(x, y) == RGeq(y, x)
RLt(x, y) == ~RGeq(x, y)
Tenths(t) == Rat(t, 10)

\* round half to even of the rational n/d to an integer
RoundHalfEven(n, d) ==
    LET q == n \div d
        r == n % d
    IN  IF 2 * r > d THEN q + 1
        ELSE IF 2 * r < d THEN q
        ELSE IF q % 2 = 0 THEN q ELSE q + 1

\* Python's round(x, 2)
Round2(x) == Rat(RoundHalfEven(100 * x.n, x.d), 100)

(***************************************************************************)
(* Text.                                                                   *)
(***************************************************************************)
UpperCase == << "A","B","C","D","E","F","G","H","I","J","K","L","M",
                "N","O","P","Q","R","S","T","U","V","W","X","Y","Z" >>
LowerCase == << "a","b","c","d","e","f","g","h","i","j","k","l","m",
                "n","o","p","q","r","s","t","u","v","w","x","y","z" >>

LowerChar(c) ==
    IF \E i \in 1..26 : UpperCase[i] = c
    THEN LowerCase[CHOOSE i \in 1..26 : UpperCase[i] = c]
    ELSE c

\* str.lower()
Lower(s) == [i \in 1..Len(s) |-> LowerChar(s[i])]

\* the Python test  s in t  on two strings
IsSubstring(s, t) ==
    \E i \in 0..(Len(t) - Len(s)) : SubSeq(t, i + 1, i + Len(s)) = s

\* sep.join(parts)
RECURSIVE Join(_, _)
Join(sep, parts) ==
    IF parts = << >> THEN << >>
    ELSE IF Len(parts) = 1 THEN parts[1]
    ELSE parts[1] \o sep \o Join(sep, Tail(parts))

Range(f) == {f[i] : i \in DOMAIN f}

\* dict.get(key, default)
Get(d, key, default) == IF key \in DOMAIN d THEN d[key] ELSE default

\* the order-preserving selections of at most k elements of the sequence base
RECURSIVE Picks(_, _)
Picks(base, k) ==
    IF base = << >> \/ k = 0 THEN { << >> }
    ELSE Picks(Tail(base), k)
         \cup { << Head(base) >> \o p : p \in Picks(Tail(base), k - 1) }

(***************************************************************************)
(* The strings the inputs are drawn from.                                  *)
(***************************************************************************)
S_python == << "p", "y", "t", "h", "o", "n" >>
S_Python == << "P", "y", "t", "h", "o", "n" >>
S_sql == << "s", "q", "l" >>
S_SQL == << "S", "Q", "L" >>
S_sqls == << "s", "q", "l", "s" >>
S_Sq == << "S", "q" >>
S_go == << "g", "o" >>
E_span == << "g", "o", " ", "2", "0", "1", "8", "-", "2", "0", "2", "1" >>
E_single == << "2", "0", "2", "0" >>
E_same == << "2", "0", "2", "0", " ", "t", "o", " ", "2", "0", "2", "0" >>
E_old == << "1", "9", "9", "9" >>
X_4years == << "4", " ", "y", "e", "a", "r", "s" >>
X_3plus == << "3", "+", " ", "y", "e", "a", "r", "s" >>
X_0years == << "0", " ", "y", "e", "a", "r", "s" >>
X_NotSpecified == << "N", "o", "t", " ", "s", "p", "e", "c", "i", "f", "i", "e", "d" >>

ResumeSkillVocab == << S_Python, S_SQL, S_sqls >>
JobSkillVocab == << S_python, S_sql, S_Sq, S_go >>
ExperienceVocab == << E_span, E_single, E_same, E_old >>
ExperienceReqVocab ==
    { X_4years, X_3plus, X_0years, X_NotSpecified,
      << "1", "0", " ", "y", "e", "a", "r", "s" >>,
      << "s", "e", "n", "i", "o", "r" >> }

(***************************************************************************)
(* Python's str() of the values of resume_data, as far as the scoring      *)
(* engine reads it (scoring_engine.py:62).                                 *)
(***************************************************************************)
K_email == << "{", "'", "e", "m", "a", "i", "l", "'", ":", " " >>
K_phone == << ",", " ", "'", "p", "h", "o", "n", "e", "'", ":", " " >>
K_None == << "N", "o", "n", "e" >>
K_description == << "{", "'", "d", "e", "s", "c", "r", "i", "p", "t", "i", "o", "n", "'", ":", " " >>

ReprStr(s) == << "'" >> \o s \o << "'" >>
\* a contact field is None (written << >> here) or a non-empty string
\* (parser.py:62-65)
ReprOpt(v) == IF v = << >> THEN K_None ELSE ReprStr(v)
ReprList(items) == << "[" >> \o Join(<< ",", " " >>, items) \o << "]" >>
ReprContact(c) ==
    K_email \o ReprOpt(c.email) \o K_phone \o ReprOpt(c.phone) \o << "}" >>
ReprSkills(skills) == ReprList([i \in 1..Len(skills) |-> ReprStr(skills[i])])
ReprExperience(exps) ==
    ReprList([i \in 1..Len(exps) |->
                K_description \o ReprStr(exps[i].description) \o << "}" >>])

\* [str(v) for v in resume_data.values() if v], in the order the parser
\* builds the dictionary (parser.py:44-51); an empty list is falsy
ResumeValueStrings(rd) ==
    << ReprContact(rd.contact) >>
    \o (IF rd.skills = << >> THEN << >> ELSE << ReprSkills(rd.skills) >>)
    \o (IF rd.experience = << >> THEN << >>
        ELSE << ReprExperience(rd.experience) >>)

ResumeText(rd) == Lower(Join(<< " " >>, ResumeValueStrings(rd)))

(***************************************************************************)
(* fuzzywuzzy's fuzz.ratio(s1, s2): int(round(100 * 2*M / T)), M the       *)
(* matched characters and T the total length (scoring_engine.py:74).       *)
(***************************************************************************)
RECURSIVE LCSLen(_, _)
LCSLen(a, b) ==
    IF a = << >> \/ b = << >> THEN 0
    ELSE IF Head(a) = Head(b) THEN 1 + LCSLen(Tail(a), Tail(b))
    ELSE LET x == LCSLen(Tail(a), b)
             y == LCSLen(a, Tail(b))
         IN  IF x >= y THEN x ELSE y

FuzzRatio(s1, s2) ==
    IF s1 = s2 THEN 100
    ELSE IF Len(s1) = 0 \/ Len(s2) = 0 THEN 0
    ELSE RoundHalfEven(200 * LCSLen(s1, s2), Len(s1) + Len(s2))

(***************************************************************************)
(* ScoringEngine.calculate_hard_match_score (scoring_engine.py:55-101).    *)
(* Credits are kept in tenths: 1 -> 10, 0.8 -> 8, 0.6 -> 6.                *)
(***************************************************************************)
\* mutant: the resume skills kept as written
ResumeSkillSet_CaseSensitive(rd) == Range(Get(rd, "skills", << >>))

ResumeSkillSet(rd) == { Lower(s) : s \in Range(Get(rd, "skills", << >>)) }

FuzzyThreshold == 85
RequiredBudget == 60
PreferredBudget == 40
NeutralHardScore == 50

\* mutant: the substring tier tried before the fuzzy tier
SkillCredit_SubstringFirst(skill, resume_skills, text) ==
    LET skill_lower == Lower(skill)
    IN  IF skill_lower \in resume_skills THEN 10
        ELSE IF IsSubstring(skill_lower, text) THEN 6
        ELSE IF \E rs \in resume_skills :
                    FuzzRatio(skill_lower, rs) > FuzzyThreshold THEN 8
        ELSE 0

SkillCredit(skill, resume_skills, text) ==
    LET skill_lower == Lower(skill)
    IN  IF skill_lower \in resume_skills THEN 10
        ELSE IF \E rs \in resume_skills :
                    FuzzRatio(skill_lower, rs) > FuzzyThreshold THEN 8
        ELSE IF IsSubstring(skill_lower, text) THEN 6
        ELSE 0

RECURSIVE MatchedCredits(_, _, _)
MatchedCredits(skills, resume_skills, text) ==
    IF skills = << >> THEN 0
    ELSE SkillCredit(Head(skills), resume_skills, text)
         + MatchedCredits(Tail(skills), resume_skills, text)

\* (matched / len(skills)) * budget
TierScore(skills, resume_skills, text, budget) ==
    RMul(Rat(MatchedCredits(skills, resume_skills, text), 10 * Len(skills)),
         RInt(budget))

\* the sum of the two tier scores, before the choice of the default
HardMatchPoints(rd, jd) ==
    LET resume_skills == ResumeSkillSet(rd)
        text == ResumeText(rd)
        required_skills == Get(jd, "required_skills", << >>)
        preferred_skills == Get(jd, "preferred_skills", << >>)
    IN  [ score |->
            RAdd(IF required_skills # << >>
                 THEN TierScore(required_skills, resume_skills, text,
                                RequiredBudget)
                 ELSE RInt(0),
                 IF preferred_skills # << >>
                 THEN TierScore(preferred_skills, resume_skills, text,
                                PreferredBudget)
                 ELSE RInt(0)),
          total_requirements |->
            (IF required_skills # << >> THEN RequiredBudget ELSE 0)
            + (IF preferred_skills # << >> THEN PreferredBudget ELSE 0) ]

\* mutant: the score rescaled to the points the job's lists could give
CalculateHardMatchScore_Rescaled(rd, jd) ==
    LET p == HardMatchPoints(rd, jd)
    IN  IF p.total_requirements > 0
        THEN RMul(RDiv(p.score, RInt(p.total_requirements)), RInt(100))
        ELSE RInt(NeutralHardScore)

\* mutant: the default returned whenever nothing matched
CalculateHardMatchScore_DefaultOnZero(rd, jd) ==
    LET p == HardMatchPoints(rd, jd)
    IN  IF p.score.n > 0 THEN p.score ELSE RInt(NeutralHardScore)

CalculateHardMatchScore(rd, jd) ==
    LET p == HardMatchPoints(rd, jd)
    IN  IF p.total_requirements > 0 THEN p.score ELSE RInt(NeutralHardScore)

(***************************************************************************)
(* ScoringEngine.extract_years_of_experience, parse_experience_requirement *)
(* and calculate_experience_score (scoring_engine.py:103-156).             *)
(***************************************************************************)
Digits == << "0", "1", "2", "3", "4", "5", "6", "7", "8", "9" >>
IsDigit(c) == \E i \in 1..10 : Digits[i] = c
DigitVal(c) == (CHOOSE i \in 1..10 : Digits[i] = c) - 1

RECURSIVE ToInt(_)
ToInt(ds) ==
    IF ds = << >> THEN 0
    ELSE 10 * ToInt(SubSeq(ds, 1, Len(ds) - 1)) + DigitVal(ds[Len(ds)])

\* re.findall(r'20\d{2}', text): the non-overlapping matches, left to right
RECURSIVE FindYears(_)
FindYears(text) ==
    IF Len(text) < 4 THEN << >>
    ELSE IF text[1] = "2" /\ text[2] = "0" /\ IsDigit(text[3]) /\ IsDigit(text[4])
         THEN << ToInt(SubSeq(text, 1, 4)) >>
              \o FindYears(SubSeq(text, 5, Len(text)))
         ELSE FindYears(Tail(text))

\* re.findall(r'\d+', text): the maximal runs of digits, left to right
RECURSIVE DigitRun(_)
DigitRun(text) ==
    IF text = << >> \/ ~IsDigit(Head(text)) THEN << >>
    ELSE << Head(text) >> \o DigitRun(Tail(text))

RECURSIVE FindNumbers(_)
FindNumbers(text) ==
    IF text = << >> THEN << >>
    ELSE IF IsDigit(Head(text))
         THEN LET run == DigitRun(text)
              IN  << run >> \o FindNumbers(SubSeq(text, Len(run) + 1, Len(text)))
         ELSE FindNumbers(Tail(text))

EntrySpan(exp) ==
    LET year_matches == FindYears(Get(exp, "description", << >>))
    IN  IF Len(year_matches) >= 2
        THEN Abs(year_matches[Len(year_matches)] - year_matches[1])
        ELSE 0

RECURSIVE SumSpans(_)
SumSpans(exps) ==
    IF exps = << >> THEN 0 ELSE EntrySpan(Head(exps)) + SumSpans(Tail(exps))

YearsPerPosition == 2
DefaultExperienceScore == 50

ExtractYearsOfExperience(rd) ==
    LET experience_list == Get(rd, "experience", << >>)
        years == SumSpans(experience_list)
    IN  IF experience_list = << >> THEN 0
        ELSE IF years = 0 THEN Len(experience_list) * YearsPerPosition
        ELSE years

ParseExperienceRequirement(exp_text) ==
    LET numbers == FindNumbers(exp_text)
    IN  IF numbers # << >> THEN ToInt(numbers[1]) ELSE 0

\* mutant: the bands entered only above their lower edge
CalculateExperienceScore_StrictBands(rd, jd) ==
    LET resume_experience == ExtractYearsOfExperience(rd)
        required_experience == Get(jd, "experience_required", X_NotSpecified)
        required_years == ParseExperienceRequirement(required_experience)
    IN  IF required_experience # X_NotSpecified
           /\ required_years # 0 /\ resume_experience # 0
        THEN IF resume_experience > required_years THEN 100
             ELSE IF 4 * resume_experience > 3 * required_years THEN 75
             ELSE IF 2 * resume_experience > required_years THEN 50
             ELSE 25
        ELSE DefaultExperienceScore

\* mutant: a requirement or a record that gives no years scored in the
\* lowest band
CalculateExperienceScore_LowestWhenUnknown(rd, jd) ==
    LET resume_experience == ExtractYearsOfExperience(rd)
        required_experience == Get(jd, "experience_required", X_NotSpecified)
        required_years == ParseExperienceRequirement(required_experience)
    IN  IF required_experience # X_NotSpecified
        THEN IF required_years # 0 /\ resume_experience >= required_years
               THEN 100
             ELSE IF required_years # 0
                     /\ 4 * resume_experience >= 3 * required_years THEN 75
             ELSE IF required_years # 0
                     /\ 2 * resume_experience >= required_years THEN 50
             ELSE 25
        ELSE DefaultExperienceScore

CalculateExperienceScore(rd, jd) ==
    LET resume_experience == ExtractYearsOfExperience(rd)
        required_experience == Get(jd, "experience_required", X_NotSpecified)
        required_years == ParseExperienceRequirement(required_experience)
    IN  IF required_experience # X_NotSpecified
           /\ required_years # 0 /\ resume_experience # 0
        THEN IF resume_experience >= required_years THEN 100
             ELSE IF 4 * resume_experience >= 3 * required_years THEN 75
             ELSE IF 2 * resume_experience >= required_years THEN 50
             ELSE 25
        ELSE DefaultExperienceScore

(***************************************************************************)
(* Config (config.py:12-19) and ScoringEngine.__init__                     *)
(* (scoring_engine.py:7-10).  Weights in tenths.                           *)
(***************************************************************************)
DefaultConfig ==
    [ HARD_MATCH_WEIGHT |-> 4, SEMANTIC_MATCH_WEIGHT |-> 4,
      EXPERIENCE_WEIGHT |-> 2,
      HIGH_RELEVANCE_THRESHOLD |-> 75, MEDIUM_RELEVANCE_THRESHOLD |-> 50 ]

ScoringEngineInit(cfg) ==
    [ hard_weight |-> cfg.HARD_MATCH_WEIGHT,
      semantic_weight |-> cfg.SEMANTIC_MATCH_WEIGHT,
      experience_weight |-> cfg.EXPERIENCE_WEIGHT ]

(***************************************************************************)
(* ScoringEngine.calculate_overall_score (scoring_engine.py:12-53).        *)
(***************************************************************************)
\* mutant: the weights renormalised to sum to 1
WeightedAverage_Renormalised(hard, semantic, experience, eng) ==
    LET total == eng.hard_weight + eng.semantic_weight + eng.experience_weight
        sum == RAdd(RAdd(RMul(hard, RInt(eng.hard_weight)),
                         RMul(semantic, RInt(eng.semantic_weight))),
                    RMul(experience, RInt(eng.experience_weight)))
    IN  IF total = 0 THEN RInt(0) ELSE RDiv(sum, RInt(total))

\* mutant: the experience score added without its weight
WeightedAverage_ExperienceUnweighted(hard, semantic, experience, eng) ==
    RAdd(RAdd(RMul(hard, Tenths(eng.hard_weight)),
              RMul(semantic, Tenths(eng.semantic_weight))),
         experience)

\* lines 26-30
WeightedAverage(hard, semantic, experience, eng) ==
    RAdd(RAdd(RMul(hard, Tenths(eng.hard_weight)),
              RMul(semantic, Tenths(eng.semantic_weight))),
         RMul(experience, Tenths(eng.experience_weight)))

\* mutant: the verdict taken from the rounded score
DetermineVerdict_Rounded(overall, cfg) ==
    IF RGeq(Round2(overall), RInt(cfg.HIGH_RELEVANCE_THRESHOLD)) THEN "HIGH"
    ELSE IF RGeq(Round2(overall), RInt(cfg.MEDIUM_RELEVANCE_THRESHOLD))
         THEN "MEDIUM"
    ELSE "LOW"

\* mutant: the medium band closed from above instead of from below
DetermineVerdict_MediumBelow(overall, cfg) ==
    IF RGeq(overall, RInt(cfg.HIGH_RELEVANCE_THRESHOLD)) THEN "HIGH"
    ELSE IF RLeq(overall, RInt(cfg.MEDIUM_RELEVANCE_THRESHOLD)) THEN "MEDIUM"
    ELSE "LOW"

\* lines 33-38
DetermineVerdict(overall, cfg) ==
    IF RGeq(overall, RInt(cfg.HIGH_RELEVANCE_THRESHOLD)) THEN "HIGH"
    ELSE IF RGeq(overall, RInt(cfg.MEDIUM_RELEVANCE_THRESHOLD)) THEN "MEDIUM"
    ELSE "LOW"

\* lines 41-51
CompileBreakdown(overall, hard, semantic, experience, verdict, analysis) ==
    [ overall_score |-> Round2(overall),
      hard_match_score |-> Round2(hard),
      semantic_score |-> Round2(semantic),
      experience_score |-> Round2(experience),
      verdict |-> verdict,
      matched_skills |-> Get(analysis, "matched_skills", << >>),
      missing_required_skills |-> Get(analysis, "missing_required_skills", << >>),
      missing_preferred_skills |-> Get(analysis, "missing_preferred_skills", << >>),
      recommendations |-> Get(analysis, "recommendations", << >>) ]

\* mutant: the analysis' match_percentage, when present, replaces the
\* weighted average
CalculateOverallScore_Override(eng, cfg, rd, jd, semantic, analysis) ==
    LET hard == CalculateHardMatchScore(rd, jd)
        experience == RInt(CalculateExperienceScore(rd, jd))
        overall == IF "match_percentage" \in DOMAIN analysis
                   THEN RInt(analysis.match_percentage)
                   ELSE WeightedAverage(hard, semantic, experience, eng)
        verdict == DetermineVerdict(overall, cfg)
    IN  [ overall_score |-> overall,
          verdict |-> verdict,
          breakdown |-> CompileBreakdown(overall, hard, semantic, experience,
                                         verdict, analysis) ]

CalculateOverallScore(eng, cfg, rd, jd, semantic, analysis) ==
    LET hard == CalculateHardMatchScore(rd, jd)
        experience == RInt(CalculateExperienceScore(rd, jd))
        overall == WeightedAverage(hard, semantic, experience, eng)
        verdict == DetermineVerdict(overall, cfg)
    IN  [ overall_score |-> overall,
          verdict |-> verdict,
          breakdown |-> CompileBreakdown(overall, hard, semantic, experience,
                                         verdict, analysis) ]

(***************************************************************************)
(* The texts of the language model's answers and of the handler's own      *)
(* messages.                                                               *)
(***************************************************************************)
T_ErrorInAnalysis ==
    << "E", "r", "r", "o", "r", " ", "i", "n", " ", "a", "n", "a", "l", "y",
       "s", "i", "s" >>
T_PleaseTryAgain ==
    << "P", "l", "e", "a", "s", "e", " ", "t", "r", "y", " ", "a", "g", "a",
       "i", "n" >>

\* lines of the answers the language model gives in this model
Line ==
    [
      intro |->
        << "H", "e", "r", "e", " ", "i", "s", " ", "m", "y", " ", "a",
           "n", "a", "l", "y", "s", "i", "s" >>,
      match |->
        << "M", "a", "t", "c", "h", ":", " ", "7", "0", "%" >>,
      matched |->
        << "M", "a", "t", "c", "h", "e", "d", " ", "s", "k", "i", "l",
           "l", "s", ":" >>,
      item_sql |->
        << "-", " ", "s", "q", "l" >>,
      missing |->
        << "M", "i", "s", "s", "i", "n", "g", " ", "r", "e", "q", "u",
           "i", "r", "e", "d", " ", "s", "k", "i", "l", "l", "s", ":" >>,
      item_go |->
        << "-", " ", "g", "o" >>,
      open |->
        << "{" >>,
      close |->
        << "}" >>,
      members |->
        << "\"", "m", "a", "t", "c", "h", "_", "p", "e", "r", "c",
           "e", "n", "t", "a", "g", "e", "\"", ":", " ", "8", "2",
           ",", " ", "\"", "m", "a", "t", "c", "h", "e", "d", "_",
           "s", "k", "i", "l", "l", "s", "\"", ":", " ", "[", "\"",
           "p", "y", "t", "h", "o", "n", "\"", "]", ",", " ", "\"",
           "m", "i", "s", "s", "i", "n", "g", "_", "r", "e", "q", "u",
           "i", "r", "e", "d", "_", "s", "k", "i", "l", "l", "s",
           "\"", ":", " ", "[", "\"", "s", "q", "l", "\"", "]", ",",
           " ", "\"", "m", "i", "s", "s", "i", "n", "g", "_", "p", "r",
           "e", "f", "e", "r", "r", "e", "d", "_", "s", "k", "i", "l",
           "l", "s", "\"", ":", " ", "[", "]", ",", " ", "\"", "s",
           "t", "r", "e", "n", "g", "t", "h", "s", "\"", ":", " ",
           "[", "\"", "R", "e", "l", "e", "v", "a", "n", "t", " ",
           "s", "k", "i", "l", "l", "s", "\"", "]", ",", " ", "\"",
           "g", "a", "p", "s", "\"", ":", " ", "[", "\"", "N", "o",
           " ", "S", "Q", "L", "\"", "]", ",", " ", "\"", "r", "e", "c",
           "o", "m", "m", "e", "n", "d", "a", "t", "i", "o", "n", "s",
           "\"", ":", " ", "[", "\"", "L", "e", "a", "r", "n", " ",
           "S", "Q", "L", "\"", "]" >>,
      broken |->
        << "\"", "m", "a", "t", "c", "h", "_", "p", "e", "r", "c",
           "e", "n", "t", "a", "g", "e", "\"", ":", " ", "8", "2",
           ",", ",", " ", "o", "o", "p", "s" >> ]

\* the words parse_llm_response looks for (llm_handler.py:133-146)
Keyword ==
    [
      match |->
        << "m", "a", "t", "c", "h" >>,
      matched_skills |->
        << "m", "a", "t", "c", "h", "e", "d", " ", "s", "k", "i", "l",
           "l", "s" >>,
      missing_required |->
        << "m", "i", "s", "s", "i", "n", "g", " ", "r", "e", "q", "u",
           "i", "r", "e", "d" >>,
      missing_preferred |->
        << "m", "i", "s", "s", "i", "n", "g", " ", "p", "r", "e", "f",
           "e", "r", "r", "e", "d" >>,
      strength |->
        << "s", "t", "r", "e", "n", "g", "t", "h" >>,
      gap |->
        << "g", "a", "p" >>,
      concern |->
        << "c", "o", "n", "c", "e", "r", "n" >>,
      recommend |->
        << "r", "e", "c", "o", "m", "m", "e", "n", "d" >> ]

\* a complete answer of the model, as json.loads returns it
FullAnalysis ==
    [ match_percentage |-> 82,
      matched_skills |-> << S_python >>,
      missing_required_skills |-> << S_sql >>,
      missing_preferred_skills |-> << >>,
      strengths |-> << << "R", "e", "l", "e", "v", "a", "n", "t", " ", "s", "k", "i", "l", "l", "s" >> >>,
      gaps |-> << << "N", "o", " ", "S", "Q", "L" >> >>,
      recommendations |-> << << "L", "e", "a", "r", "n", " ", "S", "Q", "L" >> >> ]

\* the answer {} : no key at all
EmptyAnalysis == << >>

(***************************************************************************)
(* LLMHandler.parse_llm_response (llm_handler.py:114-153).                 *)
(***************************************************************************)
\* s.strip(chars)
RECURSIVE LStrip(_, _)
LStrip(s, chars) ==
    IF s # << >> /\ Head(s) \in chars THEN LStrip(Tail(s), chars) ELSE s

RECURSIVE RStrip(_, _)
RStrip(s, chars) ==
    IF s # << >> /\ s[Len(s)] \in chars
    THEN RStrip(SubSeq(s, 1, Len(s) - 1), chars) ELSE s

Strip(s, chars) == RStrip(LStrip(s, chars), chars)
Whitespace == { " ", "\n", "\t" }
\* line.strip('- ' + bullet): "U+2022" stands for the bullet character
BulletChars == { "-", " ", "U+2022" }

\* text.split('\n')
RECURSIVE Split(_)
Split(text) ==
    LET breaks == { i \in 1..Len(text) : text[i] = "\n" }
        k == CHOOSE i \in breaks : \A j \in breaks : i <= j
    IN  IF breaks = {} THEN << text >>
        ELSE << SubSeq(text, 1, k - 1) >>
             \o Split(SubSeq(text, k + 1, Len(text)))

ParsedDefaults ==
    [ match_percentage |-> 50,
      matched_skills |-> << >>,
      missing_required_skills |-> << >>,
      missing_preferred_skills |-> << >>,
      strengths |-> << >>,
      gaps |-> << >>,
      recommendations |-> << >> ]

NoSection == "none"

\* one pass of the loop of lines 130-151.  The first branch changes
\* nothing: re is not imported in the module, the NameError of line 134 is
\* swallowed by the bare except.
RECURSIVE ParseLines(_, _, _)
ParseLines(lines, parsed, current_section) ==
    IF lines = << >> THEN parsed
    ELSE
      LET line == Strip(Head(lines), Whitespace)
          low == Lower(line)
          rest == Tail(lines)
      IN  IF IsSubstring(Keyword.match, low) /\ IsSubstring(<< "%" >>, line)
            THEN ParseLines(rest, parsed, current_section)
          ELSE IF IsSubstring(Keyword.matched_skills, low)
            THEN ParseLines(rest, parsed, "matched_skills")
          ELSE IF IsSubstring(Keyword.missing_required, low)
            THEN ParseLines(rest, parsed, "missing_required_skills")
          ELSE IF IsSubstring(Keyword.missing_preferred, low)
            THEN ParseLines(rest, parsed, "missing_preferred_skills")
          ELSE IF IsSubstring(Keyword.strength, low)
            THEN ParseLines(rest, parsed, "strengths")
          ELSE IF IsSubstring(Keyword.gap, low) \/ IsSubstring(Keyword.concern, low)
            THEN ParseLines(rest, parsed, "gaps")
          ELSE IF IsSubstring(Keyword.recommend, low)
            THEN ParseLines(rest, parsed, "recommendations")
          ELSE IF current_section # NoSection /\ line # << >>
                  /\ line[Len(line)] # ":"
            THEN ParseLines(rest,
                   [parsed EXCEPT ![current_section] =
                      Append(@, Strip(line, BulletChars))],
                   current_section)
          ELSE ParseLines(rest, parsed, current_section)

ParseLLMResponse(response) ==
    ParseLines(Split(response), ParsedDefaults, NoSection)

(***************************************************************************)
(* LLMHandler.analyze_resume_fit (llm_handler.py:82-112).  A call of the   *)
(* external model either raises or returns a text.                         *)
(***************************************************************************)
ResponseText(lines) == Join(<< "\n" >>, lines)

\* re.search(r'\{.*\}', response, re.DOTALL): from the first { to the last }
BraceSpan(text) ==
    LET opens == { i \in 1..Len(text) : text[i] = "{" }
        first == CHOOSE i \in opens : \A j \in opens : i <= j
        closes == { i \in 1..Len(text) : text[i] = "}" /\ i > first }
        last == CHOOSE i \in closes : \A j \in closes : i >= j
    IN  IF opens = {} \/ closes = {} THEN [found |-> FALSE]
        ELSE [found |-> TRUE, group |-> SubSeq(text, first, last)]

\* the JSON documents among the texts of this model, with their values;
\* json.loads raises on any other text
JsonDocuments ==
    { [text |-> ResponseText(<< Line.open, Line.members, Line.close >>),
       value |-> FullAnalysis],
      [text |-> ResponseText(<< Line.open, Line.close >>), value |-> EmptyAnalysis] }

JsonLoads(text) ==
    IF \E doc \in JsonDocuments : doc.text = text
    THEN [raised |-> FALSE,
          value |-> (CHOOSE doc \in JsonDocuments : doc.text = text).value]
    ELSE [raised |-> TRUE]

\* the body of the try block, lines 83-101
AnalyzeTry(call) ==
    IF call.kind = "raise" THEN [raised |-> TRUE]
    ELSE LET response == ResponseText(call.lines)
             json_match == BraceSpan(response)
         IN  IF json_match.found THEN JsonLoads(json_match.group)
             ELSE [raised |-> FALSE, value |-> ParseLLMResponse(response)]

(***************************************************************************)
(* LLMHandler.analyze_resume_fit: the mapping returned when the call or    *)
(* the JSON parse raises (llm_handler.py:102-112).                         *)
(***************************************************************************)
\* mutant: the fallback reports no missing skill
FallbackAnalysis_NothingMissing(jd) ==
    [ match_percentage |-> 0,
      matched_skills |-> << >>,
      missing_required_skills |-> << >>,
      missing_preferred_skills |-> << >>,
      strengths |-> << >>,
      gaps |-> << T_ErrorInAnalysis >>,
      recommendations |-> << T_PleaseTryAgain >> ]

FallbackAnalysis(jd) ==
    [ match_percentage |-> 0,
      matched_skills |-> << >>,
      missing_required_skills |-> Get(jd, "required_skills", << >>),
      missing_preferred_skills |-> Get(jd, "preferred_skills", << >>),
      strengths |-> << >>,
      gaps |-> << T_ErrorInAnalysis >>,
      recommendations |-> << T_PleaseTryAgain >> ]

\* mutant: the except branch of lines 102-112 left out
AnalyzeResumeFit_NoCatch(call, jd) == AnalyzeTry(call)

AnalyzeResumeFit(call, jd) ==
    LET tried == AnalyzeTry(call)
    IN  IF tried.raised
        THEN [raised |-> FALSE, value |-> FallbackAnalysis(jd)]
        ELSE tried

(***************************************************************************)
(* The inputs.  The parsers build resume_data and jd_data with every key   *)
(* (parser.py:44-51, 174-181); the sections the scoring engine never reads *)
(* by name (education, projects, certifications, title, ...) are left out, *)
(* which is the case of a document where they are empty.                   *)
(***************************************************************************)
NoContact == [ email |-> << >>, phone |-> << >> ]

Resume(skills, descriptions) ==
    [ contact |-> NoContact,
      skills |-> skills,
      experience |-> [i \in 1..Len(descriptions) |->
                        [description |-> descriptions[i]]] ]

Job(required, preferred, experience_required) ==
    [ required_skills |-> required,
      preferred_skills |-> preferred,
      experience_required |-> experience_required ]

Resumes ==
    { Resume(sk, ex) : sk \in Picks(ResumeSkillVocab, MaxSkills),
                       ex \in Picks(ExperienceVocab, MaxEntries) }

JobSkillLists == Picks(JobSkillVocab, MaxSkills)

\* job data handed to the engine directly may lack a key: the engine reads
\* it with .get(key, [])
JobsLackingKeys ==
    { [ experience_required |-> X_NotSpecified ] }
    \cup { [ required_skills |-> rq, experience_required |-> X_NotSpecified ] :
             rq \in JobSkillLists }
    \cup { [ preferred_skills |-> pf, experience_required |-> X_NotSpecified ] :
             pf \in JobSkillLists }

HardMatchJobs ==
    { Job(rq, pf, X_NotSpecified) : rq \in JobSkillLists, pf \in JobSkillLists }
    \cup JobsLackingKeys

Nothing == << >>

\* the variables an evaluation fills in, before it has run
Unset ==
    /\ resume_text = Nothing
    /\ jd_text = Nothing
    /\ semantic_score = RInt(0)
    /\ llm_analysis = Nothing
    /\ scored = Nothing
    /\ feedback = ""
    /\ result = Nothing
    /\ db = << >>
    /\ ext = Nothing

(***************************************************************************)
(* SpecHard: calculate_hard_match_score applied to every resume and job of *)
(* the bounded input sets.                                                 *)
(***************************************************************************)
InitHard ==
    /\ Config = DefaultConfig
    /\ engine = ScoringEngineInit(DefaultConfig)
    /\ pc = "hard"
    /\ resume_data \in Resumes
    /\ jd_data \in HardMatchJobs
    /\ Unset

HardMatch ==
    /\ pc = "hard"
    /\ scored' = [ hard_match_score |->
                     CalculateHardMatchScore(resume_data, jd_data) ]
    /\ pc' = "hard_done"
    /\ UNCHANGED << Config, engine, resume_text, jd_text, resume_data, jd_data,
                    semantic_score, llm_analysis, feedback, result, db, ext >>

NextHard == HardMatch

SpecHard == InitHard /\ [][NextHard]_vars

(***************************************************************************)
(* Claims about calculate_hard_match_score, checked under SpecHard.        *)
(***************************************************************************)
RequiredOf(jd) == Get(jd, "required_skills", << >>)
PreferredOf(jd) == Get(jd, "preferred_skills", << >>)
HardDone == pc = "hard_done"

\* the credit the tier rule gives a job skill, in tenths
TierRuleCredit(skill, rd) ==
    LET wanted == Lower(skill)
        have == { Lower(s) : s \in Range(rd.skills) }
    IN  IF wanted \in have THEN 10
        ELSE IF \E h \in have : FuzzRatio(wanted, h) > 85 THEN 8
        ELSE IF IsSubstring(wanted, ResumeText(rd)) THEN 6
        ELSE 0

RECURSIVE TierRuleSum(_, _)
TierRuleSum(skills, rd) ==
    IF skills = << >> THEN 0
    ELSE TierRuleCredit(Head(skills), rd) + TierRuleSum(Tail(skills), rd)

\* (sum of credits) / (number of skills) * budget; 0 for an empty list
TierRulePart(skills, rd, budget) ==
    IF skills = << >> THEN RInt(0)
    ELSE Rat(TierRuleSum(skills, rd) * budget, 10 * Len(skills))

\* C7: every required and preferred skill is credited by the first tier
\* that applies (exact 1.0, fuzzy above 85 0.8, substring of the resume text
\* 0.6, else 0), and a list's sub-score is (sum of credits) / (number of
\* skills) * its budget, 60 for required and 40 for preferred.
C7_TieredCredits ==
    (HardDone /\ (RequiredOf(jd_data) # << >> \/ PreferredOf(jd_data) # << >>))
    => scored.hard_match_score
         = RAdd(TierRulePart(RequiredOf(jd_data), resume_data, 60),
                TierRulePart(PreferredOf(jd_data), resume_data, 40))

\* required: python exact, sql fuzzy (sqls); preferred: Sq substring, go none
C7_Witness ==
    /\ HardDone
    /\ resume_data = Resume(<< S_Python, S_sqls >>, << >>)
    /\ jd_data = Job(<< S_python, S_sql >>, << S_Sq, S_go >>, X_NotSpecified)
    /\ scored.hard_match_score = RInt(66)

\* C8 as stated: a job with one non-empty skill list scores that list out
\* of 100 (so a resume with exactly the required skills and no preferred
\* skills on the job scores 100); with both lists, required out of 60 and
\* preferred out of 40.
C8_SingleListWorth100 ==
    HardDone =>
      LET rq == RequiredOf(jd_data)
          pf == PreferredOf(jd_data)
      IN  /\ (rq # << >> /\ pf = << >>)
               => scored.hard_match_score = TierRulePart(rq, resume_data, 100)
          /\ (rq = << >> /\ pf # << >>)
               => scored.hard_match_score = TierRulePart(pf, resume_data, 100)
          /\ (rq # << >> /\ pf # << >>)
               => scored.hard_match_score
                    = RAdd(TierRulePart(rq, resume_data, 60),
                           TierRulePart(pf, resume_data, 40))

ExactCount(skills, rd) ==
    Cardinality({ i \in 1..Len(skills) : TierRuleCredit(skills[i], rd) = 10 })

\* C9: required skills only, k of the n required skills exact members of
\* the resume skill set and the others matching at no tier: the score is
\* 60 * k / n.
C9_RequiredOnlyExact ==
    LET rq == RequiredOf(jd_data)
    IN  ( /\ HardDone
          /\ rq # << >>
          /\ PreferredOf(jd_data) = << >>
          /\ \A i \in 1..Len(rq) :
                 TierRuleCredit(rq[i], resume_data) \in {0, 10} )
        => scored.hard_match_score
             = Rat(60 * ExactCount(rq, resume_data), Len(rq))

\* required {python, sql}, resume skills {python}: 30
C9_Witness ==
    /\ HardDone
    /\ resume_data.skills = << S_Python >>
    /\ jd_data = Job(<< S_python, S_sql >>, << >>, X_NotSpecified)
    /\ scored.hard_match_score = RInt(30)

\* C10: with neither required nor preferred skills on the job the score is
\* 50 for every resume; with a non-empty list the score is the points
\* earned, also when they are 0.
C10_NeutralDefault ==
    HardDone =>
      IF RequiredOf(jd_data) = << >> /\ PreferredOf(jd_data) = << >>
      THEN scored.hard_match_score = RInt(50)
      ELSE scored.hard_match_score = HardMatchPoints(resume_data, jd_data).score

\* no list on the job, a resume with skills: 50; and a job whose only skill
\* matches nothing is the other case
C10_Witness ==
    /\ HardDone
    /\ "required_skills" \notin DOMAIN jd_data
    /\ "preferred_skills" \notin DOMAIN jd_data
    /\ resume_data.skills # << >>
    /\ scored.hard_match_score = RInt(50)

(***************************************************************************)
(* SpecAgg: calculate_overall_score applied to sample documents under      *)
(* every configuration of the bounded choice sets.  Any weights and        *)
(* thresholds of the settings page can be in Config when an engine is      *)
(* built: Save Settings stores what the sliders hold (app.py:641-647).     *)
(***************************************************************************)
WeightChoices == {2, 4, 10}        \* tenths, slider positions
ThresholdChoices == {50, 75}       \* number_input values

Configs ==
    { [ HARD_MATCH_WEIGHT |-> h, SEMANTIC_MATCH_WEIGHT |-> s,
        EXPERIENCE_WEIGHT |-> e,
        HIGH_RELEVANCE_THRESHOLD |-> hi, MEDIUM_RELEVANCE_THRESHOLD |-> md ] :
        h \in WeightChoices, s \in WeightChoices, e \in WeightChoices,
        hi \in ThresholdChoices, md \in ThresholdChoices }

SampleResumes ==
    { Resume(<< >>, << >>),
      Resume(<< S_Python >>, << E_span >>),
      Resume(<< S_SQL, S_sqls >>, << E_single >>) }

SampleJobs ==
    { Job(<< >>, << >>, X_NotSpecified),
      Job(<< S_python, S_sql >>, << >>, X_4years),
      Job(<< S_python >>, << S_go >>, X_3plus),
      Job(<< S_sql, S_Sq >>, << S_python, S_go >>, X_0years) }

\* cosine similarity * 100: a float between -100 and 100
SemanticChoices == { RInt(0), Rat(4999, 100), RInt(96), RInt(-100) }

SampleAnalyses(jd) == { FullAnalysis, EmptyAnalysis, FallbackAnalysis(jd) }

InitAgg ==
    /\ Config \in Configs
    /\ engine = ScoringEngineInit(Config)
    /\ pc = "score"
    /\ resume_data \in SampleResumes
    /\ jd_data \in SampleJobs
    /\ resume_text = Nothing
    /\ jd_text = Nothing
    /\ semantic_score \in SemanticChoices
    /\ llm_analysis \in SampleAnalyses(jd_data)
    /\ scored = Nothing
    /\ feedback = ""
    /\ result = Nothing
    /\ db = << >>
    /\ ext = Nothing

\* mutant: a call that, once it has its result, copies the weights Config
\* holds into the engine
Score_RefreshingWeights ==
    /\ pc = "score"
    /\ scored' = CalculateOverallScore(engine, Config, resume_data, jd_data,
                                       semantic_score, llm_analysis)
    /\ engine' = ScoringEngineInit(Config)
    /\ pc' = "feedback"
    /\ UNCHANGED << Config, resume_text, jd_text, resume_data, jd_data,
                    semantic_score, llm_analysis, feedback, result, db, ext >>

\* mutant: a call that lower-cases the resume's skill list in place
Score_LowercasingSkills ==
    /\ pc = "score"
    /\ scored' = CalculateOverallScore(engine, Config, resume_data, jd_data,
                                       semantic_score, llm_analysis)
    /\ resume_data' =
         [resume_data EXCEPT !.skills = [i \in 1..Len(@) |-> Lower(@[i])]]
    /\ pc' = "feedback"
    /\ UNCHANGED << Config, engine, resume_text, jd_text, jd_data,
                    semantic_score, llm_analysis, feedback, result, db, ext >>

\* resume_processor.py:47-49
Score ==
    /\ pc = "score"
    /\ scored' = CalculateOverallScore(engine, Config, resume_data, jd_data,
                                       semantic_score, llm_analysis)
    /\ pc' = "feedback"
    /\ UNCHANGED << Config, engine, resume_text, jd_text, resume_data, jd_data,
                    semantic_score, llm_analysis, feedback, result, db, ext >>

NextAgg == Score

SpecAgg == InitAgg /\ [][NextAgg]_vars

(***************************************************************************)
(* Claims about calculate_overall_score, checked under SpecAgg.            *)
(***************************************************************************)
Scored == pc = "feedback"
HardOf == CalculateHardMatchScore(resume_data, jd_data)
ExperienceOf == CalculateExperienceScore(resume_data, jd_data)
HasMatchPercentage == "match_percentage" \in DOMAIN llm_analysis
WeightSum ==
    engine.hard_weight + engine.semantic_weight + engine.experience_weight

\* hard*w_hard + semantic*w_semantic + experience*w_experience, weights in
\* tenths: the numerator over the denominator 10 * d_hard * d_semantic
PlainWeightedSum ==
    LET h == HardOf
        s == semantic_score
    IN  Rat(h.n * s.d * engine.hard_weight
              + s.n * h.d * engine.semantic_weight
              + ExperienceOf * h.d * s.d * engine.experience_weight,
            10 * h.d * s.d)

Band(score, high, medium) ==
    IF score.n >= high * score.d THEN "HIGH"
    ELSE IF score.n >= medium * score.d THEN "MEDIUM"
    ELSE "LOW"

\* C3: the verdict is the band of the unrounded overall score between the
\* two configured thresholds, whatever the rounded score of the breakdown
\* would give.
C3_VerdictFromUnrounded ==
    Scored =>
      /\ scored.verdict = Band(scored.overall_score,
                               Config.HIGH_RELEVANCE_THRESHOLD,
                               Config.MEDIUM_RELEVANCE_THRESHOLD)
      /\ scored.breakdown.verdict = scored.verdict

\* 49.996 is LOW although the breakdown shows 50.0
C3_Witness ==
    /\ Scored
    /\ Config.MEDIUM_RELEVANCE_THRESHOLD = 50
    /\ Config.HIGH_RELEVANCE_THRESHOLD = 75
    /\ scored.overall_score = Rat(49996, 1000)
    /\ scored.breakdown.overall_score = RInt(50)
    /\ scored.verdict = "LOW"

\* C4: the overall score is the plain weighted sum with the engine's
\* weights as they are, also when they do not sum to 1.0: no
\* renormalisation, no clamping.
C4_PlainWeightedSum ==
    Scored => scored.overall_score = PlainWeightedSum

\* weights 1.0, 1.0, 1.0 and an overall score above 100
C4_Witness ==
    /\ Scored
    /\ WeightSum = 30
    /\ RGeq(scored.overall_score, RInt(101))

InRange(x) == RGeq(x, RInt(0)) /\ RLeq(x, RInt(100))

\* C5: weights summing to 1.0 and the three scores in [0,100] give an
\* overall score in [0,100].
C5_OverallInRange ==
    ( /\ Scored
      /\ WeightSum = 10
      /\ InRange(HardOf) /\ InRange(semantic_score)
      /\ InRange(RInt(ExperienceOf)) )
    => InRange(scored.overall_score)

C5_Witness ==
    /\ Scored
    /\ WeightSum = 10
    /\ InRange(semantic_score)
    /\ RGeq(scored.overall_score, RInt(75))

Rank(verdict) ==
    CASE verdict = "LOW" -> 0 [] verdict = "MEDIUM" -> 1 [] verdict = "HIGH" -> 2

\* scores from -100 to 300 in steps of 1/4
ScoreGrid == { Rat(q, 4) : q \in (-400)..1200 }

\* C6: for the thresholds in force, no score below the one just judged
\* gets a higher verdict and no score above it a lower one.
C6_VerdictMonotonic ==
    Scored =>
      \A s \in ScoreGrid :
        /\ RLeq(s, scored.overall_score)
             => Rank(DetermineVerdict(s, Config)) <= Rank(scored.verdict)
        /\ RGeq(s, scored.overall_score)
             => Rank(DetermineVerdict(s, Config)) >= Rank(scored.verdict)

C6_Witness ==
    /\ Scored
    /\ Config.HIGH_RELEVANCE_THRESHOLD > Config.MEDIUM_RELEVANCE_THRESHOLD
    /\ scored.verdict = "MEDIUM"

(***************************************************************************)
(* LLMHandler.calculate_semantic_similarity (llm_handler.py:33-49).  A     *)
(* call of the embedding service either raises or returns two vectors.     *)
(* The vectors of this model have whole, non-zero norms.                   *)
(***************************************************************************)
RECURSIVE Dot(_, _)
Dot(u, v) ==
    IF u = << >> THEN 0 ELSE Head(u) * Head(v) + Dot(Tail(u), Tail(v))

\* np.linalg.norm
Norm(v) == CHOOSE r \in 0..Dot(v, v) : r * r = Dot(v, v)

CalculateSemanticSimilarity(call) ==
    IF call.kind = "raise" THEN RInt(0)
    ELSE Rat(100 * Dot(call.resume, call.jd), Norm(call.resume) * Norm(call.jd))

(***************************************************************************)
(* LLMHandler.generate_feedback (llm_handler.py:155-185).                  *)
(***************************************************************************)
FeedbackOnError ==
    "Thank you for your application. Please review the missing skills and consider updating your resume accordingly."

GenerateFeedback(call) ==
    IF call.kind = "raise" THEN FeedbackOnError ELSE call.text

(***************************************************************************)
(* ResumeProcessor.parse_document (resume_processor.py:75-83).  The PDF    *)
(* and DOCX parsers return "" for a file they cannot read                  *)
(* (parser.py:12-32); any other file is opened and read as UTF-8 text,     *)
(* which raises if it cannot be decoded.                                   *)
(***************************************************************************)
ParseDocument(file) ==
    IF file.suffix \in { ".pdf", ".docx", ".doc" }
    THEN [ raised |-> FALSE,
           value |-> IF file.readable THEN file.text ELSE Nothing ]
    ELSE IF file.readable THEN [ raised |-> FALSE, value |-> file.text ]
    ELSE [ raised |-> TRUE, error |-> "UnicodeDecodeError" ]

\* mutant: the row kept whatever the commit does
SaveEvaluation_CommitUnchecked(rows, row, commit) == Append(rows, row)

\* DatabaseOperations.save_evaluation (models.py:77-92): the row is added
\* unless the commit raises; the error is caught
SaveEvaluation(rows, row, commit) ==
    IF commit.kind = "raise" THEN rows ELSE Append(rows, row)

\* resume_processor.py:87-105
EvaluationData(res) ==
    [ candidate_name |-> res.candidate_name,
      candidate_email |-> res.candidate_email,
      job_title |-> res.job_title,
      company |-> res.company,
      location |-> res.location,
      resume_filename |-> res.resume_filename,
      jd_filename |-> res.jd_filename,
      overall_score |-> res.overall_score,
      verdict |-> res.verdict,
      hard_match_score |-> res.breakdown.hard_match_score,
      semantic_score |-> res.breakdown.semantic_score,
      experience_score |-> res.breakdown.experience_score,
      matched_skills |-> res.breakdown.matched_skills,
      missing_required_skills |-> res.breakdown.missing_required_skills,
      missing_preferred_skills |-> res.breakdown.missing_preferred_skills,
      recommendations |-> res.breakdown.recommendations,
      feedback |-> res.feedback ]

\* resume_processor.py:29-32
FailedToParse == [ error |-> "Failed to parse documents", success |-> FALSE ]

\* app.py:142-146 with the name and company fields left empty
SinglePageInfo ==
    [ name |-> "Unknown", company |-> "Unknown", location |-> "Hyderabad" ]

\* resume_processor.py:55-68; info is candidate_info, Nothing for None
PrepareResult(rd, jd, sc, fb, files) ==
    LET info == files.candidate_info
    IN  [ success |-> TRUE,
          candidate_name |-> Get(info, "name", "Unknown"),
          candidate_email |-> rd.contact.email,
          job_title |-> Get(jd, "title", "Unknown Position"),
          company |-> Get(info, "company", "Unknown"),
          location |-> Get(info, "location", "Unknown"),
          overall_score |-> sc.overall_score,
          verdict |-> sc.verdict,
          breakdown |-> sc.breakdown,
          feedback |-> fb,
          resume_filename |-> files.resume.name,
          jd_filename |-> files.jd.name ]

(***************************************************************************)
(* Spec: the session of the application.  One evaluation at a time runs    *)
(* through process_resume_and_jd; between evaluations the settings page    *)
(* may store a configuration and a new session may build a new processor.  *)
(* The document parsers are collaborators: an uploaded file carries the    *)
(* text and the structured data they extract from it.                      *)
(***************************************************************************)

\* st.file_uploader(type=['pdf', 'docx', 'doc']), app.py:89-93
ResumeFiles ==
    { [ name |-> "resume.pdf", suffix |-> ".pdf", readable |-> TRUE,
        text |-> << "p", "y", "t", "h", "o", "n", " ", "s", "q", "l" >>,
        data |-> Resume(<< S_Python >>, << E_span >>) ],
      [ name |-> "scan.pdf", suffix |-> ".pdf", readable |-> FALSE,
        text |-> Nothing, data |-> Nothing ] }

\* st.file_uploader(type=['pdf', 'docx', 'doc', 'txt']) or the pasted text
\* written to a .txt file, app.py:109-139
JDFiles ==
    { [ name |-> "jd.txt", suffix |-> ".txt", readable |-> TRUE,
        text |-> << "p", "y", "t", "h", "o", "n", " ", "g", "o" >>,
        data |-> Job(<< S_python, S_sql >>, << S_go >>, X_4years) ],
      [ name |-> "jd.docx", suffix |-> ".docx", readable |-> FALSE,
        text |-> Nothing, data |-> Nothing ],
      [ name |-> "legacy.txt", suffix |-> ".txt", readable |-> FALSE,
        text |-> Nothing, data |-> Nothing ] }

Raise == [ kind |-> "raise" ]
NotCalled == [ kind |-> "none" ]

EmbeddingCalls ==
    { Raise }
    \cup { [ kind |-> "vectors", resume |-> << 3, 4 >>, jd |-> v ] :
             v \in { << 4, 3 >>, << -3, -4 >> } }

Response(lines) == [ kind |-> "response", lines |-> lines ]

AnalysisCalls ==
    { Raise,
      Response(<< Line.open, Line.members, Line.close >>),
      Response(<< Line.intro, Line.open, Line.members, Line.close, Line.intro >>),
      Response(<< Line.intro, Line.match, Line.matched, Line.item_sql, Line.missing,
                  Line.item_go >>),
      Response(<< Line.open, Line.broken, Line.close >>),
      Response(<< Line.open, Line.members >>),
      Response(<< Line.open, Line.close >>),
      Response(<< Line.intro >>),
      Response(<< Line.intro, Line.open, Line.members, Line.close, Line.open,
                  Line.close >>),
      Response(<< Line.open, Line.members, Line.close, Line.intro, Line.close >>) }

FeedbackCalls ==
    { Raise, [ kind |-> "response", text |-> "Add SQL to your resume." ] }

CommitCalls == { Raise, [ kind |-> "ok" ] }

\* configurations the settings page can store: the sliders move in tenths
\* between 0.0 and 1.0, the thresholds are whole numbers from 0 to 100
SettingsChoices ==
    { DefaultConfig,
      [ HARD_MATCH_WEIGHT |-> 2, SEMANTIC_MATCH_WEIGHT |-> 4,
        EXPERIENCE_WEIGHT |-> 4,
        HIGH_RELEVANCE_THRESHOLD |-> 50, MEDIUM_RELEVANCE_THRESHOLD |-> 50 ],
      [ HARD_MATCH_WEIGHT |-> 10, SEMANTIC_MATCH_WEIGHT |-> 10,
        EXPERIENCE_WEIGHT |-> 10,
        HIGH_RELEVANCE_THRESHOLD |-> 50, MEDIUM_RELEVANCE_THRESHOLD |-> 75 ] }

NoCalls ==
    [ files |-> Nothing, embedding |-> NotCalled, analysis |-> NotCalled,
      feedback |-> NotCalled, commit |-> NotCalled ]

\* the locals of an evaluation, before it has run
Idle ==
    /\ resume_text = Nothing
    /\ jd_text = Nothing
    /\ resume_data = Nothing
    /\ jd_data = Nothing
    /\ semantic_score = RInt(0)
    /\ llm_analysis = Nothing
    /\ scored = Nothing
    /\ feedback = ""
    /\ result = Nothing
    /\ ext = NoCalls

Init ==
    /\ Config = DefaultConfig
    /\ engine = ScoringEngineInit(DefaultConfig)
    /\ pc = "idle"
    /\ db = << >>
    /\ Idle

\* mutant: only the resume text tested for emptiness
ParseAndExtract_ResumeTextOnly(rf, jf, candidate_info) ==
    LET r == ParseDocument(rf)
        j == ParseDocument(jf)
    IN  /\ ext' = [ext EXCEPT !.files = [ resume |-> rf, jd |-> jf,
                                          candidate_info |-> candidate_info ]]
        /\ IF r.raised \/ j.raised
           THEN /\ pc' = "raised"
                /\ resume_text' = IF r.raised THEN Nothing ELSE r.value
                /\ result' = [ exception |->
                                 IF r.raised THEN r.error ELSE j.error ]
                /\ UNCHANGED << jd_text, resume_data, jd_data >>
           ELSE /\ resume_text' = r.value
                /\ jd_text' = j.value
                /\ IF r.value = Nothing
                   THEN /\ result' = FailedToParse
                        /\ pc' = "returned"
                        /\ UNCHANGED << resume_data, jd_data >>
                   ELSE /\ resume_data' = rf.data
                        /\ jd_data' = jf.data
                        /\ pc' = "semantic"
                        /\ UNCHANGED result

\* resume_processor.py:25-36: the two documents are parsed and, when both
\* gave text, their structured data extracted; an exception of
\* parse_document leaves the call
ParseAndExtract(rf, jf, candidate_info) ==
    LET r == ParseDocument(rf)
        j == ParseDocument(jf)
    IN  /\ ext' = [ext EXCEPT !.files = [ resume |-> rf, jd |-> jf,
                                          candidate_info |-> candidate_info ]]
        /\ IF r.raised \/ j.raised
           THEN /\ pc' = "raised"
                /\ resume_text' = IF r.raised THEN Nothing ELSE r.value
                /\ result' = [ exception |->
                                 IF r.raised THEN r.error ELSE j.error ]
                /\ UNCHANGED << jd_text, resume_data, jd_data >>
           ELSE /\ resume_text' = r.value
                /\ jd_text' = j.value
                /\ IF r.value = Nothing \/ j.value = Nothing
                   THEN /\ result' = FailedToParse
                        /\ pc' = "returned"
                        /\ UNCHANGED << resume_data, jd_data >>
                   ELSE /\ resume_data' = rf.data
                        /\ jd_data' = jf.data
                        /\ pc' = "semantic"
                        /\ UNCHANGED result

\* app.py:123-152: the Analyze button with two uploaded files, up to the
\* extraction of the structured data
Evaluate ==
    /\ pc = "idle"
    /\ Len(db) < MaxRows
    /\ \E rf \in ResumeFiles, jf \in JDFiles :
         ParseAndExtract(rf, jf, SinglePageInfo)
    /\ UNCHANGED << Config, engine, semantic_score, llm_analysis, scored,
                    feedback, db >>

\* resume_processor.py:39-41
SemanticSimilarity ==
    /\ pc = "semantic"
    /\ \E call \in EmbeddingCalls :
         /\ semantic_score' = CalculateSemanticSimilarity(call)
         /\ ext' = [ext EXCEPT !.embedding = call]
    /\ pc' = "analyze"
    /\ UNCHANGED << Config, engine, resume_text, jd_text, resume_data, jd_data,
                    llm_analysis, scored, feedback, result, db >>

\* resume_processor.py:44
AnalyzeFit ==
    /\ pc = "analyze"
    /\ \E call \in AnalysisCalls :
         LET returned == AnalyzeResumeFit(call, jd_data)
         IN  /\ ext' = [ext EXCEPT !.analysis = call]
             /\ IF returned.raised
                THEN pc' = "raised" /\ UNCHANGED llm_analysis
                ELSE pc' = "score" /\ llm_analysis' = returned.value
    /\ UNCHANGED << Config, engine, resume_text, jd_text, resume_data, jd_data,
                    semantic_score, scored, feedback, result, db >>

\* resume_processor.py:52
Feedback ==
    /\ pc = "feedback"
    /\ \E call \in FeedbackCalls :
         /\ feedback' = GenerateFeedback(call)
         /\ ext' = [ext EXCEPT !.feedback = call]
    /\ pc' = "save"
    /\ UNCHANGED << Config, engine, resume_text, jd_text, resume_data, jd_data,
                    semantic_score, llm_analysis, scored, result, db >>

\* resume_processor.py:55-73
SaveAndReturn ==
    /\ pc = "save"
    /\ \E commit \in CommitCalls :
         LET res == PrepareResult(resume_data, jd_data, scored, feedback,
                                  ext.files)
         IN  /\ result' = res
             /\ db' = SaveEvaluation(db, EvaluationData(res), commit)
             /\ ext' = [ext EXCEPT !.commit = commit]
    /\ pc' = "returned"
    /\ UNCHANGED << Config, engine, resume_text, jd_text, resume_data, jd_data,
                    semantic_score, llm_analysis, scored, feedback >>

\* app.py:154-160: the result, or the exception, is displayed and the run
\* of the script ends
Finish ==
    /\ pc \in { "returned", "raised" }
    /\ pc' = "idle"
    /\ resume_text' = Nothing
    /\ jd_text' = Nothing
    /\ resume_data' = Nothing
    /\ jd_data' = Nothing
    /\ semantic_score' = RInt(0)
    /\ llm_analysis' = Nothing
    /\ scored' = Nothing
    /\ feedback' = ""
    /\ result' = Nothing
    /\ ext' = NoCalls
    /\ UNCHANGED << Config, engine, db >>

\* app.py:641-649: Save Settings stores what the widgets hold
SaveSettings ==
    /\ pc = "idle"
    /\ \E cfg \in SettingsChoices : Config' = cfg
    /\ UNCHANGED << engine, pc, resume_text, jd_text, resume_data, jd_data,
                    semantic_score, llm_analysis, scored, feedback, result,
                    db, ext >>

\* app.py:55-58: a new session builds its own ResumeProcessor, whose engine
\* copies the weights Config holds then (scoring_engine.py:7-10)
NewSession ==
    /\ pc = "idle"
    /\ engine' = ScoringEngineInit(Config)
    /\ UNCHANGED << Config, pc, resume_text, jd_text, resume_data, jd_data,
                    semantic_score, llm_analysis, scored, feedback, result,
                    db, ext >>

Next ==
    \/ Evaluate
    \/ SemanticSimilarity
    \/ AnalyzeFit
    \/ Score
    \/ Feedback
    \/ SaveAndReturn
    \/ Finish
    \/ SaveSettings
    \/ NewSession

Spec == Init /\ [][Next]_vars

(***************************************************************************)
(* Claims about process_resume_and_jd, checked under Spec.                 *)
(***************************************************************************)
\* both documents were parsed to non-empty text
ParsedBoth == resume_text # Nothing /\ jd_text # Nothing

Verdicts == { "HIGH", "MEDIUM", "LOW" }

BreakdownKeys ==
    { "overall_score", "hard_match_score", "semantic_score",
      "experience_score", "verdict", "matched_skills",
      "missing_required_skills", "missing_preferred_skills",
      "recommendations" }

\* C2: on two parsed documents no outcome of the embedding, analysis and
\* feedback calls leaves the evaluation by an exception, and what it
\* returns has success = True, a verdict and a complete score breakdown.
C2_NoExternalFailurePropagates ==
    ParsedBoth =>
      /\ pc # "raised"
      /\ pc = "returned" =>
           /\ result.success
           /\ result.verdict \in Verdicts
           /\ DOMAIN result.breakdown = BreakdownKeys
           /\ result.breakdown.verdict = result.verdict

\* an evaluation returned although every external call raised
C2_Witness ==
    /\ pc = "returned"
    /\ ParsedBoth
    /\ result.success
    /\ ext.embedding = Raise
    /\ ext.analysis = Raise
    /\ ext.feedback = Raise
    /\ ext.commit = Raise

(***************************************************************************)
(* SpecExp: calculate_experience_score applied to every experience list    *)
(* and every requirement text of the bounded input sets.  The entries are  *)
(* those the resume parser builds: each holds a four-digit token           *)
(* (parser.py:100-104).                                                    *)
(***************************************************************************)
InitExp ==
    /\ Config = DefaultConfig
    /\ engine = ScoringEngineInit(DefaultConfig)
    /\ pc = "experience"
    /\ resume_data \in
         { Resume(sk, ex) : sk \in { << >>, << S_Python >> },
                            ex \in Picks(ExperienceVocab, MaxEntries) }
         \cup { [ contact |-> NoContact, skills |-> << >> ] }
    /\ jd_data \in
         { Job(<< >>, << >>, x) : x \in ExperienceReqVocab }
         \cup { [ required_skills |-> << >>, preferred_skills |-> << >> ] }
    /\ Unset

\* scoring_engine.py:103-125, with the years of line 108 kept beside the
\* score
ExperienceScore ==
    /\ pc = "experience"
    /\ scored' = [ experience_score |->
                     CalculateExperienceScore(resume_data, jd_data),
                   resume_experience |->
                     ExtractYearsOfExperience(resume_data) ]
    /\ pc' = "experience_done"
    /\ UNCHANGED << Config, engine, resume_text, jd_text, resume_data, jd_data,
                    semantic_score, llm_analysis, feedback, result, db, ext >>

NextExp == ExperienceScore

SpecExp == InitExp /\ [][NextExp]_vars

(***************************************************************************)
(* Claims about calculate_experience_score, checked under SpecExp.         *)
(***************************************************************************)
ExperienceDone == pc = "experience_done"
EntriesOf(rd) == Get(rd, "experience", << >>)
RequirementOf(jd) == Get(jd, "experience_required", X_NotSpecified)
HasIntegerToken(text) == \E i \in 1..Len(text) : IsDigit(text[i])

\* the years R the requirement text asks for: its first run of digits
RequiredYears(jd) ==
    LET text == RequirementOf(jd)
        first == CHOOSE i \in 1..Len(text) :
                   IsDigit(text[i]) /\ \A j \in 1..(i - 1) : ~IsDigit(text[j])
        after == { j \in first..Len(text) : ~IsDigit(text[j]) }
        last == IF after = {} THEN Len(text)
                ELSE (CHOOSE j \in after : \A k \in after : j <= k) - 1
    IN  IF text = X_NotSpecified \/ ~HasIntegerToken(text) THEN 0
        ELSE ToInt(SubSeq(text, first, last))

ExperienceBand(c, r) ==
    IF c >= r THEN 100
    ELSE IF 4 * c >= 3 * r THEN 75
    ELSE IF 2 * c >= r THEN 50
    ELSE 25

\* C11: with required years R > 0 and a resume that has experience
\* entries, the experience score is 100 when the candidate's years C reach
\* R, else 75 from 0.75 R, else 50 from 0.5 R, else 25.
C11_ExperienceBands ==
    (ExperienceDone /\ RequiredYears(jd_data) > 0
       /\ EntriesOf(resume_data) # << >>)
      => scored.experience_score =
           ExperienceBand(scored.resume_experience, RequiredYears(jd_data))

\* two years against a requirement of ten: the lowest band
C11_Witness ==
    /\ ExperienceDone
    /\ RequiredYears(jd_data) = 10
    /\ scored.resume_experience = 2
    /\ scored.experience_score = 25

\* C12: the score is the neutral 50 whenever the requirement is
\* 'Not specified', absent or without an integer token, or the resume has no
\* experience entries.
C12_NeutralWhenUnknown ==
    (ExperienceDone
       /\ \/ RequirementOf(jd_data) = X_NotSpecified
          \/ ~HasIntegerToken(RequirementOf(jd_data))
          \/ EntriesOf(resume_data) = << >>)
      => scored.experience_score = 50

\* a requirement text without a number, against a resume with entries
C12_Witness ==
    /\ ExperienceDone
    /\ RequirementOf(jd_data) # X_NotSpecified
    /\ ~HasIntegerToken(RequirementOf(jd_data))
    /\ EntriesOf(resume_data) # << >>
    /\ scored.experience_score = 50

\* the 20xx tokens of an entry, found without the engine's scanner
YearTokenAt(text, i) ==
    /\ i + 3 <= Len(text)
    /\ text[i] = "2" /\ text[i + 1] = "0"
    /\ IsDigit(text[i + 2]) /\ IsDigit(text[i + 3])

HasYearToken(exp) ==
    \E i \in 1..Len(exp.description) : YearTokenAt(exp.description, i)

\* C13: the years are the sum of the spans of the entries with two or more
\* 20xx tokens, and the two-years-per-entry estimate is used if and only if
\* no entry holds a 20xx token.
C13_FallbackOnlyWithoutYearTokens ==
    ExperienceDone =>
      LET entries == EntriesOf(resume_data)
      IN  scored.resume_experience =
            IF \E i \in 1..Len(entries) : HasYearToken(entries[i])
            THEN SumSpans(entries)
            ELSE 2 * Len(entries)

(***************************************************************************)
(* Claims about the external analysis and the semantic score, checked      *)
(* under Spec.                                                             *)
(***************************************************************************)
AnalysisKeys ==
    { "match_percentage", "matched_skills", "missing_required_skills",
      "missing_preferred_skills", "strengths", "gaps", "recommendations" }

AnalysisReturned == ext.analysis # NotCalled /\ pc # "raised"
OverallComputed == pc \in { "feedback", "save", "returned" }

\* C14: when the call of the external model raises, analyze_resume_fit
\* returns a mapping with the seven analysis keys, every required skill of
\* the job listed as missing and no matched skill, and the overall score is
\* the weighted combination of the local scores.
C14_FallbackOnRaise ==
    ext.analysis = Raise =>
      /\ pc # "raised"
      /\ DOMAIN llm_analysis = AnalysisKeys
      /\ llm_analysis.missing_required_skills = RequiredOf(jd_data)
      /\ llm_analysis.matched_skills = << >>
      /\ OverallComputed => scored.overall_score = PlainWeightedSum

\* an evaluation returned after the analysis call raised, its breakdown
\* listing both required skills as missing
C14_Witness ==
    /\ pc = "returned"
    /\ ext.analysis = Raise
    /\ ext.embedding.kind = "vectors"
    /\ result.overall_score = PlainWeightedSum
    /\ result.breakdown.missing_required_skills = << S_python, S_sql >>

\* a response without a brace and without a section keyword
Unparseable(call) ==
    /\ call.kind = "response"
    /\ \A i \in 1..Len(call.lines) :
         /\ ~IsSubstring(<< "{" >>, call.lines[i])
         /\ ~IsSubstring(<< "}" >>, call.lines[i])
         /\ \A k \in DOMAIN Keyword :
              ~IsSubstring(Keyword[k], Lower(call.lines[i]))

\* C15: for a response from which nothing can be parsed the returned
\* analysis has every key and lists the job's required skills as missing.
C15_UnparseableListsAllMissing ==
    (AnalysisReturned /\ Unparseable(ext.analysis)) =>
      /\ DOMAIN llm_analysis = AnalysisKeys
      /\ llm_analysis.missing_required_skills = RequiredOf(jd_data)

\* the skills of a job list the resume holds, compared in lower case
LocalMatched(skills) ==
    SelectSeq(skills, LAMBDA sk : Lower(sk) \in ResumeSkillSet(resume_data))

LocalMissing(skills) ==
    SelectSeq(skills, LAMBDA sk : Lower(sk) \notin ResumeSkillSet(resume_data))

Min(a, b) == IF a <= b THEN a ELSE b

AnalysisFailed ==
    \/ ext.analysis = Raise
    \/ ext.analysis = Response(<< Line.open, Line.broken, Line.close >>)
    \/ ext.analysis = Response(<< Line.open, Line.members >>)

\* C16: after a failed call, or malformed or partial JSON, the analysis is
\* computed from the inputs, with
\* match_percentage = min(100, 60 + 10 |matched required| + 5 |matched preferred|).
C16_LocalAnalysisOnFailure ==
    (AnalysisReturned /\ AnalysisFailed) =>
      /\ Range(llm_analysis.matched_skills) =
           Range(LocalMatched(RequiredOf(jd_data)))
             \cup Range(LocalMatched(PreferredOf(jd_data)))
      /\ llm_analysis.missing_required_skills =
           LocalMissing(RequiredOf(jd_data))
      /\ llm_analysis.missing_preferred_skills =
           LocalMissing(PreferredOf(jd_data))
      /\ llm_analysis.match_percentage =
           Min(100, 60 + 10 * Len(LocalMatched(RequiredOf(jd_data)))
                       + 5 * Len(LocalMatched(PreferredOf(jd_data))))

\* the lower-cased words of a text: its maximal runs without a space
Tokens(text) ==
    LET t == Lower(text)
        runs == { p \in (1..Len(t)) \X (1..Len(t)) :
                    /\ p[1] <= p[2]
                    /\ \A k \in p[1]..p[2] : t[k] # " "
                    /\ p[1] = 1 \/ t[p[1] - 1] = " "
                    /\ p[2] = Len(t) \/ t[p[2] + 1] = " " }
    IN  { SubSeq(t, p[1], p[2]) : p \in runs }

Jaccard(a, b) ==
    IF a \cup b = {} THEN RInt(0)
    ELSE Rat(100 * Cardinality(a \cap b), Cardinality(a \cup b))

\* C17: when the embedding service fails the semantic score is the Jaccard
\* similarity of the two texts' lower-cased word sets, scaled to 0-100.
C17_JaccardOnEmbeddingFailure ==
    ext.embedding = Raise =>
      semantic_score = Jaccard(Tokens(resume_text), Tokens(jd_text))

\* C18: whatever the embedding service does, the semantic score lies in
\* [0, 100].
C18_SemanticInRange ==
    ext.embedding # NotCalled => InRange(semantic_score)

\* C20: the three weights held in Config always sum to 1.0 (ten tenths; the
\* tolerance of 0.01 is below the slider step).
C20_ConfigWeightsSumToOne ==
    Config.HARD_MATCH_WEIGHT + Config.SEMANTIC_MATCH_WEIGHT
      + Config.EXPERIENCE_WEIGHT = 10

(***************************************************************************)
(* SpecBatch: batch_process_resumes (resume_processor.py:109-132; the      *)
(* batch page runs the same loop, app.py:316-336).  Each pass of the loop  *)
(* calls process_resume_and_jd without candidate_info; the call runs       *)
(* through the steps of Spec.  ext also holds the folder, the job          *)
(* description file and the results list.                                  *)
(***************************************************************************)
\* resume_processor.py:114-117: the files of the folder that are resumes
ResumeFilesIn(folder) ==
    SelectSeq(folder, LAMBDA f : f.suffix \in { ".pdf", ".docx", ".doc" })

\* mutant: the loop body without its try/except
BatchEntry_NoCatch(file, out) == out

\* resume_processor.py:121-130: the entry the loop appends for a file
BatchEntry(file, out) ==
    IF out.raised
    THEN [ raised |-> FALSE,
           value |-> [ success |-> FALSE, error |-> out.error,
                       resume_filename |-> file.name ] ]
    ELSE out

FolderFiles ==
    << [ name |-> "resume.pdf", suffix |-> ".pdf", readable |-> TRUE,
         text |-> << "p", "y", "t", "h", "o", "n", " ", "s", "q", "l" >>,
         data |-> Resume(<< S_Python >>, << E_span >>) ],
       [ name |-> "cv.docx", suffix |-> ".docx", readable |-> TRUE,
         text |-> << "s", "q", "l" >>,
         data |-> Resume(<< S_SQL >>, << E_single >>) ],
       [ name |-> "scan.pdf", suffix |-> ".pdf", readable |-> FALSE,
         text |-> Nothing, data |-> Nothing ],
       [ name |-> "notes.txt", suffix |-> ".txt", readable |-> TRUE,
         text |-> << "g", "o" >>, data |-> Nothing ] >>

InitBatch ==
    /\ Config = DefaultConfig
    /\ engine = ScoringEngineInit(DefaultConfig)
    /\ pc = "batch"
    /\ ext \in { [ files |-> Nothing, embedding |-> NotCalled,
                   analysis |-> NotCalled, feedback |-> NotCalled,
                   commit |-> NotCalled,
                   folder |-> fd, jd |-> jf, results |-> << >> ] :
                   fd \in Picks(FolderFiles, MaxBatch), jf \in JDFiles }
    /\ db = << >>
    /\ resume_text = Nothing
    /\ jd_text = Nothing
    /\ resume_data = Nothing
    /\ jd_data = Nothing
    /\ semantic_score = RInt(0)
    /\ llm_analysis = Nothing
    /\ scored = Nothing
    /\ feedback = ""
    /\ result = Nothing

\* resume_processor.py:119-122: the next file is handed to
\* process_resume_and_jd
BatchEvaluate ==
    /\ pc = "batch"
    /\ Len(ext.results) < Len(ResumeFilesIn(ext.folder))
    /\ ParseAndExtract(ResumeFilesIn(ext.folder)[Len(ext.results) + 1],
                       ext.jd, Nothing)
    /\ UNCHANGED << Config, engine, semantic_score, llm_analysis, scored,
                    feedback, db >>

\* resume_processor.py:123-130: the call returned or raised; its entry is
\* appended and the loop goes on
BatchCollect ==
    /\ pc \in { "returned", "raised" }
    /\ LET file == ext.files.resume
           out == IF pc = "raised"
                  THEN [ raised |-> TRUE,
                         error |-> Get(result, "exception", "Exception") ]
                  ELSE [ raised |-> FALSE, value |-> result ]
           entry == BatchEntry(file, out)
       IN  IF entry.raised
           THEN pc' = "batch_raised" /\ UNCHANGED ext
           ELSE /\ pc' = "batch"
                /\ ext' = [ext EXCEPT !.results = Append(@, entry.value),
                                      !.files = Nothing,
                                      !.embedding = NotCalled,
                                      !.analysis = NotCalled,
                                      !.feedback = NotCalled,
                                      !.commit = NotCalled]
    /\ resume_text' = Nothing
    /\ jd_text' = Nothing
    /\ resume_data' = Nothing
    /\ jd_data' = Nothing
    /\ semantic_score' = RInt(0)
    /\ llm_analysis' = Nothing
    /\ scored' = Nothing
    /\ feedback' = ""
    /\ result' = Nothing
    /\ UNCHANGED << Config, engine, db >>

\* resume_processor.py:132
BatchReturn ==
    /\ pc = "batch"
    /\ Len(ext.results) = Len(ResumeFilesIn(ext.folder))
    /\ pc' = "batch_done"
    /\ UNCHANGED << Config, engine, resume_text, jd_text, resume_data, jd_data,
                    semantic_score, llm_analysis, scored, feedback, result,
                    db, ext >>

NextBatch ==
    \/ BatchEvaluate
    \/ SemanticSimilarity
    \/ AnalyzeFit
    \/ Score
    \/ Feedback
    \/ SaveAndReturn
    \/ BatchCollect
    \/ BatchReturn

\* The loop is sequential code: each call returns or raises, and the next
\* statement runs.  Score is enabled exactly at pc = "score" and always
\* leaves that position, so its weak fairness is written []<>(pc # "score").
BatchFairness ==
    /\ WF_vars(BatchEvaluate \/ SemanticSimilarity \/ AnalyzeFit \/ Feedback
                  \/ SaveAndReturn \/ BatchCollect \/ BatchReturn)
    /\ []<>(pc # "score")

SpecBatch == InitBatch /\ [][NextBatch]_vars /\ BatchFairness

(***************************************************************************)
(* Claims about batch_process_resumes, checked under SpecBatch.            *)
(***************************************************************************)
BatchFiles == ResumeFilesIn(ext.folder)

\* the job description cannot be read as text: every call raises
JDRaises == ext.jd.suffix = ".txt" /\ ~ext.jd.readable

\* entry i of the results list belongs to file i
EntryOfFile(i) ==
    LET entry == ext.results[i]
    IN  IF JDRaises
        THEN entry = [ success |-> FALSE, error |-> "UnicodeDecodeError",
                       resume_filename |-> BatchFiles[i].name ]
        ELSE IF BatchFiles[i].readable /\ ext.jd.readable
        THEN entry.success /\ entry.resume_filename = BatchFiles[i].name
        ELSE entry = FailedToParse

BatchEntriesInOrder ==
    /\ pc # "batch_raised"
    /\ Len(ext.results) <= Len(BatchFiles)
    /\ \A i \in 1..Len(ext.results) : EntryOfFile(i)
    /\ pc = "batch_done" => Len(ext.results) = Len(BatchFiles)

\* C19: the batch ends with one entry per resume file, in order; a call
\* that raises leaves an entry with success = False, the error text and the
\* file name, and the files after it are processed all the same.
C19_BatchReportsEveryFile ==
    [](BatchEntriesInOrder) /\ <>(pc = "batch_done")

\* a finished batch of two files in which both calls raised
C19_Witness ==
    /\ pc = "batch_done"
    /\ JDRaises
    /\ Len(BatchFiles) = 2
    /\ Len(ext.results) = 2
    /\ ext.results[1].resume_filename = BatchFiles[1].name
    /\ ext.results[2].resume_filename = BatchFiles[2].name
    /\ ~ext.results[1].success /\ ~ext.results[2].success

(***************************************************************************)
(* Claims about the settings page and the session, checked under Spec.     *)
(***************************************************************************)
\* the verdict v is given to some whole score of [0, 100] under cfg
Assignable(v, cfg) ==
    \E s \in 0..100 : DetermineVerdict(RInt(s), cfg) = v

\* C21: whatever Save Settings has stored, the two thresholds of Config are
\* integers of [0, 100] with the high one strictly above the medium one, and
\* each of HIGH, MEDIUM and LOW is the verdict of some score in [0, 100].
C21_ThresholdsOrdered ==
    /\ Config.HIGH_RELEVANCE_THRESHOLD \in 0..100
    /\ Config.MEDIUM_RELEVANCE_THRESHOLD \in 0..100
    /\ Config.HIGH_RELEVANCE_THRESHOLD > Config.MEDIUM_RELEVANCE_THRESHOLD
    /\ \A v \in Verdicts : Assignable(v, Config)

(***************************************************************************)
(* SpecTwice: calculate_overall_score called twice on the same engine with *)
(* the same arguments (scoring_engine.py:12-53).  The engine of a session  *)
(* holds the weights of the Config it was built from, which need not be    *)
(* the Config of the moment.                                               *)
(***************************************************************************)
InitTwice ==
    /\ Config \in SettingsChoices
    /\ engine \in { ScoringEngineInit(DefaultConfig), ScoringEngineInit(Config) }
    /\ pc = "score"
    /\ resume_data \in SampleResumes
    /\ jd_data \in SampleJobs
    /\ resume_text = Nothing
    /\ jd_text = Nothing
    /\ semantic_score \in SemanticChoices
    /\ llm_analysis \in SampleAnalyses(jd_data)
    /\ scored = Nothing
    /\ feedback = ""
    /\ result = Nothing
    /\ db = << >>
    /\ ext = Nothing

\* the second call, on what the first call left behind; its return value is
\* kept in result
ScoreAgain ==
    /\ pc = "feedback"
    /\ result' = CalculateOverallScore(engine, Config, resume_data, jd_data,
                                       semantic_score, llm_analysis)
    /\ pc' = "scored_twice"
    /\ UNCHANGED << Config, engine, resume_text, jd_text, resume_data, jd_data,
                    semantic_score, llm_analysis, scored, feedback, db, ext >>

NextTwice == Score \/ ScoreAgain

SpecTwice == InitTwice /\ [][NextTwice]_vars

\* what a call of calculate_overall_score reads
ScoreInputs ==
    << Config, engine, resume_data, jd_data, semantic_score, llm_analysis >>

CoreInputs == << resume_data, jd_data, llm_analysis >>

\* C24: calculate_overall_score, with the hard match, the experience score
\* and the estimate of years it calls, leaves the resume data, the job data
\* and the analysis mapping as they were.
C24_InputsUnchanged == [][pc = "score" => UNCHANGED CoreInputs]_vars

\* a call has returned for a resume with skills and experience entries, a job
\* with both skill lists and a requirement, and an analysis with lists
C24_Witness ==
    /\ pc = "feedback"
    /\ scored # Nothing
    /\ resume_data = Resume(<< S_SQL, S_sqls >>, << E_single >>)
    /\ jd_data = Job(<< S_python >>, << S_go >>, X_3plus)
    /\ llm_analysis = FullAnalysis

(***************************************************************************)
(* Claims about generate_feedback and the tiers of the hard match.         *)
(***************************************************************************)
\* the band of a score: 75 and above, 50 up to 75, below 50
FeedbackBand(score) ==
    IF RGeq(score, RInt(75)) THEN "high"
    ELSE IF RGeq(score, RInt(50)) THEN "medium"
    ELSE "low"

\* one score of each band
BandSamples == { RInt(80), RInt(60), RInt(40) }

\* C23: when the external model is unavailable, the text generate_feedback
\* returns depends on the band of the score: the text returned for this
\* evaluation's score is not the text returned for a score of another band.
C23_FeedbackByBand ==
    (pc = "save" /\ ext.feedback = Raise) =>
      \A s \in BandSamples :
        FeedbackBand(s) # FeedbackBand(scored.overall_score)
          => GenerateFeedback(Raise) # feedback

\* the job skill is some resume skill written with other letter case
CaseOnlyMatch(skill, rd) ==
    /\ skill \notin Range(rd.skills)
    /\ \E i \in 1..Len(rd.skills) : Lower(rd.skills[i]) = Lower(skill)

\* the points of a list whose skills are all credited 1.0
FullMarks(skills, budget) == IF skills = << >> THEN 0 ELSE budget

\* C25: a job skill that differs from a resume skill only in letter case is
\* credited at the exact tier (1.0), required or preferred: a job whose
\* skills are all of that kind earns the whole budget of each list.
C25_CaseOnlyIsExact ==
    LET rq == RequiredOf(jd_data)
        pf == PreferredOf(jd_data)
    IN  ( /\ HardDone
          /\ rq # << >> \/ pf # << >>
          /\ "skills" \in DOMAIN resume_data
          /\ \A i \in 1..Len(rq) : CaseOnlyMatch(rq[i], resume_data)
          /\ \A i \in 1..Len(pf) : CaseOnlyMatch(pf[i], resume_data) )
        => scored.hard_match_score
             = RInt(FullMarks(rq, RequiredBudget) + FullMarks(pf, PreferredBudget))

\* required python and sql, preferred sql, against the resume skills Python
\* and SQL: 100
C25_Witness ==
    /\ HardDone
    /\ resume_data.skills = << S_Python, S_SQL >>
    /\ jd_data = Job(<< S_python, S_sql >>, << S_sql >>, X_NotSpecified)
    /\ scored.hard_match_score = RInt(100)

(***************************************************************************)
(* Claims about the text analyze_resume_fit parses, checked under Spec.    *)
(***************************************************************************)
\* from the first { to the } that closes it
FirstBalancedSpan(text) ==
    LET opens == { i \in 1..Len(text) : text[i] = "{" }
        first == CHOOSE i \in opens : \A j \in opens : i <= j
        depth(i) ==
            Cardinality({ k \in first..i : text[k] = "{" })
              - Cardinality({ k \in first..i : text[k] = "}" })
        ends == { i \in first..Len(text) : depth(i) = 0 }
        end == CHOOSE i \in ends : \A j \in ends : i <= j
    IN  IF opens = {} \/ ends = {} THEN [found |-> FALSE]
        ELSE [found |-> TRUE, group |-> SubSeq(text, first, end)]

\* the response holds a JSON object as its first balanced span
WrapsObject(call) ==
    /\ call.kind = "response"
    /\ FirstBalancedSpan(ResponseText(call.lines)).found
    /\ ~JsonLoads(FirstBalancedSpan(ResponseText(call.lines)).group).raised

\* C26: when the response wraps a JSON object in other text,
\* analyze_resume_fit returns the object of the first balanced
\* brace-delimited span, also when braces follow that span.
C26_FirstBalancedSpanParsed ==
    (AnalysisReturned /\ WrapsObject(ext.analysis)) =>
      llm_analysis
        = JsonLoads(FirstBalancedSpan(ResponseText(ext.analysis.lines)).group).value

\* C27: an evaluation run after Save Settings by the processor the session
\* already holds is scored with the weights and the thresholds Config holds
\* at that moment, both from the same saved configuration.
C27_EvaluationUsesSavedSettings ==
    pc \in { "feedback", "save" } =>
      scored = CalculateOverallScore(ScoringEngineInit(Config), Config,
                                     resume_data, jd_data, semantic_score,
                                     llm_analysis)

(***************************************************************************)
(* Claims about the steps of process_resume_and_jd, checked under Spec.    *)
(***************************************************************************)
\* both documents were parsed without an exception and one gave no text
EmptyTextParsed ==
    /\ pc # "idle"
    /\ ext.files # Nothing
    /\ ~ParseDocument(ext.files.resume).raised
    /\ ~ParseDocument(ext.files.jd).raised
    /\ \/ ParseDocument(ext.files.resume).value = Nothing
       \/ ParseDocument(ext.files.jd).value = Nothing

\* C28: when the resume or the job description parses to empty text,
\* process_resume_and_jd returns success False with the error 'Failed to
\* parse documents', calls no external model, computes no score and adds no
\* row to the database.
C28_EmptyTextStopsEarly ==
    /\ [](EmptyTextParsed =>
            /\ pc = "returned"
            /\ result = [ error |-> "Failed to parse documents",
                          success |-> FALSE ]
            /\ ext.embedding = NotCalled
            /\ ext.analysis = NotCalled
            /\ ext.feedback = NotCalled
            /\ ext.commit = NotCalled
            /\ scored = Nothing)
    /\ [][EmptyTextParsed' => db' = db]_vars

\* a readable resume with a job description that gives no text
C28_Witness ==
    /\ EmptyTextParsed
    /\ pc = "returned"
    /\ ext.files.resume.readable
    /\ ~ext.files.jd.readable
    /\ ~result.success

\* the call has returned a result with success True
ReturnedSuccess == pc = "returned" /\ Get(result, "success", FALSE)

\* C29: an evaluation that returns success True has attempted one save, made
\* after the score, the verdict and the feedback were computed and holding
\* those values; a commit that fails is absorbed, the returned result is the
\* same and no row is kept.
C29_OneSaveAfterScoring ==
    /\ [](ReturnedSuccess =>
            /\ ext.commit # NotCalled
            /\ result.overall_score = scored.overall_score
            /\ result.verdict = scored.verdict
            /\ result.feedback = feedback
            /\ ext.commit # Raise =>
                 /\ db # << >>
                 /\ db[Len(db)].overall_score = scored.overall_score
                 /\ db[Len(db)].verdict = scored.verdict
                 /\ db[Len(db)].feedback = feedback)
    /\ [][ext.commit' # ext.commit /\ ext.commit' # NotCalled =>
            /\ pc = "save" /\ ReturnedSuccess'
            /\ scored # Nothing /\ ext.feedback # NotCalled
            /\ IF ext.commit' = Raise THEN db' = db
               ELSE Len(db') = Len(db) + 1]_vars
    /\ [][db' # db => ext.commit' # ext.commit]_vars

\* success True returned while the commit failed: nothing was stored
C29_Witness ==
    /\ ReturnedSuccess
    /\ ext.commit = Raise
    /\ db = << >>
    /\ result.verdict \in Verdicts

(***************************************************************************)
(* A relation between two candidates, checked under SpecExp.               *)
(***************************************************************************)
\* C30: for a requirement of R > 0 years, a candidate whose estimated years
\* are fewer never scores higher on experience than one whose years are
\* more, the candidate without experience entries (0 years) included.
C30_ScoreMonotoneInYears ==
    (ExperienceDone /\ RequiredYears(jd_data) > 0) =>
      \A ex \in Picks(ExperienceVocab, MaxEntries) :
        LET other == Resume(<< >>, ex)
        IN  ExtractYearsOfExperience(other) <= scored.resume_experience
              => CalculateExperienceScore(other, jd_data)
                   <= scored.experience_score

====
